---- MODULE Spec2Model ----
(***************************************************************************)
(* Model of contrib/prometheus/rule_gen.py: the Haversine PromQL generator *)
(* of geohashing_exporter.                                                 *)
(*                                                                         *)
(* The query text is modelled as the sequence of its lexical fragments,    *)
(* blanks included, in the order the f-strings of create_query lay them    *)
(* out; concatenating the fragments gives the printed string.              *)
(***************************************************************************)
EXTENDS Integers, Sequences, FiniteSets, TLC

(***************************************************************************)
(* Bounds of the explored input space.  Angles are multiples of 60        *)
(* degrees, distances multiples of 3000.                                   *)
(***************************************************************************)
NLat == 1
NLon == 1
NDist == 2
NMetricLat == 1
NMetricLon == 3

\* the i-th latitude or longitude of the grid, in degrees
Deg(i) == 60 * i

\* the j-th distance of the grid
Dist(j) == 3000 * j

(***************************************************************************)
(* Floats.  A float is [k, n]: k = "int" is the integer-valued float n.0,  *)
(* k = "cos" is the float math.cos(n * d2r) when that is not integer       *)
(* valued, k = "inf" is +inf (n = 1) or -inf (n = -1), k = "nan" is nan.   *)
(***************************************************************************)
IntF(n) == [k |-> "int", n |-> n]
InfF(s) == [k |-> "inf", n |-> s]
NanF == [k |-> "nan", n |-> 0]

\* repr of math.cos(n * math.pi / 180.0) for n a multiple of 60 that is not
\* a multiple of 180 (CPython, IEEE-754 doubles)
CosRepr(n) ==
    IF n % 360 \in {60, 300} THEN "0.5000000000000001" ELSE "-0.4999999999999998"

\* str(float), as the f-strings of create_query apply it
FloatStr(f) ==
    CASE f.k = "int" -> ToString(f.n) \o ".0"
      [] f.k = "cos" -> CosRepr(f.n)
      [] f.k = "inf" -> IF f.n < 0 THEN "-inf" ELSE "inf"
      [] OTHER -> "nan"

\* math.cos(lat * d2r) raises ValueError (math domain error) on an infinity
CosRaises(lat) == lat.k = "inf"

\* cLat2 = math.cos(lat * d2r), where it does not raise
MathCos(lat) ==
    CASE lat.k = "nan" -> NanF
      [] lat.n % 360 = 0 -> IntF(1)
      [] lat.n % 360 = 180 -> IntF(-1)
      [] OTHER -> [k |-> "cos", n |-> lat.n]

(***************************************************************************)
(* create_query                                                            *)
(***************************************************************************)
\* str(math.pi / 180.0)
d2r == "0.017453292519943295"

Selector == "{location=\"global\"}"

square(x) == <<"(", "(">> \o x \o <<")", " ", "*", " ", "(">> \o x \o <<")", ")">>

geohashing_lat(globalhash) ==
    IF ~globalhash THEN <<"geohashing_lat">> ELSE <<"geohashing_lat", Selector>>

\* the longitude metric left without its selector
geohashing_lon_bare(globalhash) == <<"geohashing_lon">>

geohashing_lon(globalhash) ==
    IF ~globalhash THEN <<"geohashing_lon">> ELSE <<"geohashing_lon", Selector>>

dlat(lat, globalhash) ==
    <<"(", "(", FloatStr(lat), " ", "-", " ">> \o geohashing_lat(globalhash)
        \o <<")", " ", "*", " ", d2r, ")">>

dlon(lon, globalhash) ==
    <<"(", "(", FloatStr(lon), " ", "-", " ">> \o geohashing_lon(globalhash)
        \o <<")", " ", "*", " ", d2r, ")">>

\* the cosine taken of the longitude metric
cLat1_lon(globalhash) ==
    <<"cos", "(">> \o geohashing_lon(globalhash) \o <<" ", "*", " ", d2r, ")">>

cLat1(globalhash) ==
    <<"cos", "(">> \o geohashing_lat(globalhash) \o <<" ", "*", " ", d2r, ")">>

cLat2(lat) == MathCos(lat)

HalfSin(x) == <<"sin", "(">> \o x \o <<" ", "/", " ", "2.0", ")">>

a(lat, lon, globalhash) ==
    square(HalfSin(dlat(lat, globalhash)))
        \o <<" ", "+", " ">> \o cLat1(globalhash)
        \o <<" ", "*", " ", FloatStr(cLat2(lat)), " ", "*", " ">>
        \o square(HalfSin(dlon(lon, globalhash)))

c(lat, lon, globalhash) ==
    <<"2", " ", "*", " ", "(", "sqrt", "(">> \o a(lat, lon, globalhash)
        \o <<")", " ", "atan2", " ", "sqrt", "(", "1", "-">>
        \o a(lat, lon, globalhash) \o <<")", ")">>

\* the two radii exchanged
unit_mult_swapped(unit) == IF unit = "km" THEN 3956 ELSE 6367

unit_mult(unit) == IF unit = "km" THEN 6367 ELSE 3956

\* the distance formatted as an integer
create_query_intdist(lat, lon, distance, unit, globalhash) ==
    <<ToString(unit_mult(unit)), " ", "*", " ">> \o c(lat, lon, globalhash)
        \o <<" ", "<=", " ", IF distance.k = "int" THEN ToString(distance.n) ELSE FloatStr(distance)>>

\* the half-angle divisor written as 2 for miles
create_query_unitbody(lat, lon, distance, unit, globalhash) ==
    <<ToString(unit_mult(unit)), " ", "*", " ">>
        \o [i \in DOMAIN c(lat, lon, globalhash) |->
              IF unit = "mi" /\ c(lat, lon, globalhash)[i] = "2.0"
              THEN "2" ELSE c(lat, lon, globalhash)[i]]
        \o <<" ", "<=", " ", FloatStr(distance)>>

create_query(lat, lon, distance, unit, globalhash) ==
    <<ToString(unit_mult(unit)), " ", "*", " ">> \o c(lat, lon, globalhash)
        \o <<" ", "<=", " ", FloatStr(distance)>>

(***************************************************************************)
(* The command line                                                        *)
(***************************************************************************)
\* float(s) of argparse's type=float: the strings that parse
FloatWords ==
    {ToString(Deg(i)) : i \in -NLat..NLat}
        \cup {ToString(Dist(j)) : j \in 1..NDist}
        \cup {ToString(Deg(i)) : i \in 0..NLon}
        \cup {"inf", "-inf", "nan"}

FiniteOf(s) ==
    CHOOSE n \in -(Dist(NDist + 1))..(Dist(NDist + 1)) : ToString(n) = s

ParsesAsFloat(s) == s \in FloatWords

ParseFloat(s) ==
    CASE s = "inf" -> InfF(1)
      [] s = "-inf" -> InfF(-1)
      [] s = "nan" -> NanF
      [] OTHER -> IntF(FiniteOf(s))

LatWords == {ToString(Deg(i)) : i \in -NLat..NLat} \cup {"inf", "-inf", "nan", "north"}
LonWords == {ToString(Deg(i)) : i \in 0..NLon} \cup {"inf", "east"}
DistWords == {ToString(Dist(j)) : j \in 1..NDist} \cup {"nan", "far"}

\* the positionals given: all three, or the distance missing
Positionals ==
    {<<la, lo, di>> : la \in LatWords, lo \in LonWords, di \in DistWords}
        \cup {<<la, lo>> : la \in {"0"}, lo \in {"0", "east"}}

\* the --unit option: absent, or given with a value
UnitOptions == {<<>>, <<"km">>, <<"mi">>, <<"furlongs">>}

Units == {"km", "mi"}

VARIABLES argv, pc, args, stdout, stderr, exitCode

vars == <<argv, pc, args, stdout, stderr, exitCode>>

Init ==
    /\ argv \in [pos : Positionals, unit : UnitOptions, globalhash : BOOLEAN]
    /\ pc = "start"
    /\ args = <<>>
    /\ stdout = <<>>
    /\ stderr = <<>>
    /\ exitCode = 0

\* --unit without its choices
ArgvValid_anyunit(av) ==
    /\ Len(av.pos) = 3
    /\ \A i \in 1..3 : ParsesAsFloat(av.pos[i])

\* parser.parse_args() accepts the command line
ArgvValid(av) ==
    /\ Len(av.pos) = 3
    /\ \A i \in 1..3 : ParsesAsFloat(av.pos[i])
    /\ av.unit # <<>> => av.unit[1] \in Units

DefaultUnit_mi == "mi"

DefaultUnit == "km"

Namespace(av) ==
    [lat |-> ParseFloat(av.pos[1]),
     lon |-> ParseFloat(av.pos[2]),
     distance |-> ParseFloat(av.pos[3]),
     unit |-> IF av.unit = <<>> THEN DefaultUnit ELSE av.unit[1],
     globalhash |-> av.globalhash]

ParseArgs ==
    /\ pc = "start"
    /\ ArgvValid(argv)
    /\ args' = <<Namespace(argv)>>
    /\ pc' = "parsed"
    /\ UNCHANGED <<argv, stdout, stderr, exitCode>>

\* parser.error(): usage message on stderr, SystemExit(2)
ParseArgsError ==
    /\ pc = "start"
    /\ ~ArgvValid(argv)
    /\ stderr' = Append(stderr, "usage")
    /\ exitCode' = 2
    /\ pc' = "exit"
    /\ UNCHANGED <<argv, args, stdout>>

QueryOf(ns) == create_query(ns.lat, ns.lon, ns.distance, ns.unit, ns.globalhash)

\* print(create_query(...)) and the end of the script
PrintQuery ==
    /\ pc = "parsed"
    /\ ~CosRaises(args[1].lat)
    /\ stdout' = Append(stdout, QueryOf(args[1]))
    /\ exitCode' = 0
    /\ pc' = "exit"
    /\ UNCHANGED <<argv, args, stderr>>

\* create_query raises: uncaught ValueError, traceback on stderr, status 1
QueryRaises ==
    /\ pc = "parsed"
    /\ CosRaises(args[1].lat)
    /\ stderr' = Append(stderr, "ValueError")
    /\ exitCode' = 1
    /\ pc' = "exit"
    /\ UNCHANGED <<argv, args, stdout>>

Next == ParseArgs \/ ParseArgsError \/ PrintQuery \/ QueryRaises

Spec == Init /\ [][Next]_vars

TypeOK ==
    /\ pc \in {"start", "parsed", "exit"}
    /\ Len(args) \in {0, 1}
    /\ Len(stdout) \in {0, 1}
    /\ exitCode \in {0, 1, 2}
(***************************************************************************)
(* Reading the printed query                                               *)
(***************************************************************************)
Printed == pc = "exit" /\ Len(stdout) = 1

Count(seq, x) == Cardinality({i \in DOMAIN seq : seq[i] = x})

Slice(seq, i, n) == IF i >= 1 /\ i + n - 1 <= Len(seq) THEN SubSeq(seq, i, i + n - 1) ELSE <<>>

MetricNames == {"geohashing_lat", "geohashing_lon"}

\* the words of the command line that parse to a finite float
FiniteWord(w) == w \in FloatWords \ {"inf", "-inf", "nan"}

\* the text Python prints for the float a command line word parses to
ShownAs(w) == IF FiniteWord(w) THEN w \o ".0" ELSE w

(***************************************************************************)
(* C2: the query begins with the radius constant followed by " * ": 6367   *)
(* for km, 3956 for mi, whatever the other arguments.                      *)
(***************************************************************************)
C2_RadiusLeads ==
    Printed =>
        /\ args[1].unit = "km" => stdout[1][1] = "6367"
        /\ args[1].unit = "mi" => stdout[1][1] = "3956"
        /\ Slice(stdout[1], 2, 3) = <<" ", "*", " ">>

C2_Witness ==
    /\ Printed
    /\ args[1].unit = "mi"
    /\ stdout[1][1] = "3956"
    /\ argv.pos[3] = ToString(Dist(1))

(***************************************************************************)
(* C3: with globalhash every geohashing_lat and geohashing_lon is directly *)
(* followed by {location="global"}; without it the query holds no selector *)
(* at all (each metric name is followed by a blank or a bracket).          *)
(***************************************************************************)
C3_SelectorScope ==
    Printed =>
        LET o == stdout[1] IN
        /\ \E i \in DOMAIN o : o[i] = "geohashing_lat"
        /\ \E i \in DOMAIN o : o[i] = "geohashing_lon"
        /\ \A i \in DOMAIN o :
             o[i] \in MetricNames =>
                /\ i < Len(o)
                /\ IF args[1].globalhash
                     THEN o[i + 1] = Selector
                     ELSE o[i + 1] \in {" ", ")"}
        /\ ~args[1].globalhash => Count(o, Selector) = 0
        /\ \A i \in DOMAIN o :
             o[i] = Selector => i > 1 /\ o[i - 1] \in MetricNames

C3_Witness ==
    /\ Printed
    /\ args[1].globalhash
    /\ Count(stdout[1], Selector) = 10

(***************************************************************************)
(* C4: the query ends with "<= " and the distance in Python's float form,  *)
(* nothing after it; "<=" occurs once and no operator follows it.          *)
(***************************************************************************)
C4_DistanceEnds ==
    Printed =>
        LET o == stdout[1] IN
        /\ Len(o) > 4
        /\ Slice(o, Len(o) - 3, 3) = <<" ", "<=", " ">>
        /\ o[Len(o)] = ShownAs(argv.pos[3])
        /\ Count(o, "<=") = 1

C4_Witness ==
    /\ Printed
    /\ argv.pos[3] = ToString(Dist(2))
    /\ stdout[1][Len(stdout[1])] = "6000.0"

(***************************************************************************)
(* C5: a command line with a --unit outside {km, mi}, a non-numeric lat,   *)
(* lon or distance, or a missing positional never gets to create_query or  *)
(* the print, and exits with a non-zero status.                            *)
(***************************************************************************)
NotNumbers == {"north", "east", "far"}

InvalidInput(av) ==
    \/ Len(av.pos) < 3
    \/ \E i \in DOMAIN av.pos : av.pos[i] \in NotNumbers
    \/ av.unit = <<"furlongs">>

C5_InvalidInputRejected ==
    InvalidInput(argv) =>
        /\ pc # "parsed"
        /\ args = <<>>
        /\ stdout = <<>>
        /\ pc = "exit" => exitCode # 0

C5_Witness ==
    /\ pc = "exit"
    /\ argv.unit = <<"furlongs">>
    /\ \A i \in DOMAIN argv.pos : FiniteWord(argv.pos[i])
    /\ Len(argv.pos) = 3
    /\ exitCode = 2

(***************************************************************************)
(* C6: for every lat, lon and distance the parser accepts as a float, inf, *)
(* -inf and nan included, and every unit in {km, mi}, the program prints   *)
(* exactly one query line and exits with status 0.                         *)
(***************************************************************************)
WellTyped(av) ==
    /\ Len(av.pos) = 3
    /\ \A i \in 1..3 : av.pos[i] \notin NotNumbers
    /\ av.unit # <<"furlongs">>

C6_QueryNeverFails ==
    (WellTyped(argv) /\ pc = "exit") => (exitCode = 0 /\ Len(stdout) = 1)

(***************************************************************************)
(* C7: with only the three positionals the program prints what it prints   *)
(* with --unit km and no --globalhash (radius 6367, no selector); the      *)
(* selector is in the query exactly when --globalhash is given.            *)
(***************************************************************************)
C7_Defaults ==
    Printed =>
        /\ argv.unit = <<>> =>
             /\ stdout[1][1] = "6367"
             /\ stdout[1] = QueryOf(Namespace([argv EXCEPT !.unit = <<"km">>]))
        /\ argv.globalhash <=> Count(stdout[1], Selector) > 0

C7_Witness ==
    /\ Printed
    /\ argv.unit = <<>>
    /\ ~argv.globalhash
    /\ stdout[1][1] = "6367"
    /\ Count(stdout[1], Selector) = 0
(***************************************************************************)
(* C9: every cos( is applied to the metric latitude (with its selector     *)
(* under globalhash) times the degrees-to-radians constant and is then     *)
(* multiplied by the cosine of the caller's lat as a number computed at    *)
(* generation time; the caller's lat and lon are written only as the       *)
(* minuends of the differences with the metrics.  (A number that merely    *)
(* prints like lat or lon, the cosine literal or the distance at the end,  *)
(* is not counted as an occurrence of lat or lon.)                         *)
(***************************************************************************)
\* the decimal text of cos(w degrees), by the value of w
CosText(w) ==
    CASE w = "nan" -> "nan"
      [] w = "0" -> "1.0"
      [] w \in {"60", "-60"} -> "0.5000000000000001"
      [] w \in {"120", "-120"} -> "-0.4999999999999998"
      [] OTHER -> "-1.0"

IsMinuend(o, i, metric) ==
    /\ i > 2
    /\ Slice(o, i - 2, 2) = <<"(", "(">>
    /\ Slice(o, i + 1, 4) = <<" ", "-", " ", metric>>

C9_CosineAsymmetry ==
    Printed =>
        LET o == stdout[1]
            n == IF args[1].globalhash THEN 2 ELSE 1
            latText == ShownAs(argv.pos[1])
            lonText == ShownAs(argv.pos[2])
            elsewhere == {i \in DOMAIN o : i = Len(o) \/ (i > 4 /\ o[i - 4] = ")")}
        IN
        /\ Count(o, "cos") = 2
        /\ \A i \in DOMAIN o :
             o[i] = "cos" =>
                /\ Slice(o, i + 1, 1 + n) = <<"(">> \o geohashing_lat(args[1].globalhash)
                /\ Slice(o, i + 2 + n, 5) = <<" ", "*", " ", d2r, ")">>
                /\ Slice(o, i + 7 + n, 4) = <<" ", "*", " ", CosText(argv.pos[1])>>
        /\ \A i \in DOMAIN o :
             IsMinuend(o, i, "geohashing_lat") => o[i] = latText
        /\ \A i \in DOMAIN o :
             IsMinuend(o, i, "geohashing_lon") => o[i] = lonText
        /\ \A i \in DOMAIN o \ elsewhere :
             o[i] \in {latText, lonText} =>
                \/ o[i] = latText /\ IsMinuend(o, i, "geohashing_lat")
                \/ o[i] = lonText /\ IsMinuend(o, i, "geohashing_lon")
        /\ \E i \in DOMAIN o : IsMinuend(o, i, "geohashing_lat")
        /\ \E i \in DOMAIN o : IsMinuend(o, i, "geohashing_lon")

C9_Witness ==
    /\ Printed
    /\ argv.pos[1] = ToString(Deg(1))
    /\ Count(stdout[1], "0.5000000000000001") = 2
    /\ Count(stdout[1], "60.0") = 4 + 4 * Count(<<argv.pos[2]>>, "60")

(***************************************************************************)
(* C10: each option touches its own part of the query only.  For the same  *)
(* lat, lon and globalhash another unit changes the leading radius and     *)
(* nothing else, another distance changes the last fragment and nothing    *)
(* else, and the other globalhash changes the query by the selectors after *)
(* the metric names and nothing else.                                      *)
(***************************************************************************)
Without(seq, x) == SelectSeq(seq, LAMBDA y : y # x)

Distances == {IntF(Dist(j)) : j \in 1..NDist} \cup {NanF, InfF(1)}

C10_OptionsIndependent ==
    Printed =>
        LET o == stdout[1]
            ns == args[1]
        IN
        /\ \A u \in Units :
             LET o2 == create_query(ns.lat, ns.lon, ns.distance, u, ns.globalhash) IN
             /\ Tail(o2) = Tail(o)
             /\ u # ns.unit => Head(o2) # Head(o)
        /\ \A d \in Distances :
             LET o2 == create_query(ns.lat, ns.lon, d, ns.unit, ns.globalhash) IN
             /\ Len(o2) = Len(o)
             /\ SubSeq(o2, 1, Len(o2) - 1) = SubSeq(o, 1, Len(o) - 1)
             /\ d # ns.distance => o2[Len(o2)] # o[Len(o)]
        /\ LET o2 == create_query(ns.lat, ns.lon, ns.distance, ns.unit, ~ns.globalhash) IN
             /\ Without(o2, Selector) = Without(o, Selector)
             /\ o2 # o
             /\ Count(o2, Selector) + Count(o, Selector) = 10

C10_Witness ==
    /\ Printed
    /\ args[1].unit = "mi"
    /\ args[1].globalhash
    /\ args[1].distance = IntF(Dist(1))
    /\ Len(stdout[1]) > 100
(***************************************************************************)
(* Exact arithmetic for reading the query as PromQL.                       *)
(*                                                                         *)
(* A rational is <<n, d>> in lowest terms with d > 0.  A value is a record *)
(*   k = "num"  : (a + b * sqrt(3)) * pi^e                                 *)
(*   k = "sqrt" : the square root of the rational a >= 0                   *)
(*   k = "ang"  : a * atan2(sqrt(p), sqrt(q)) with a > 0, p >= 0, q >= 0   *)
(*   k = "inf"  : an infinity of the sign of a                             *)
(*   k = "nan"  : NaN                                                      *)
(*   k = "bool" : the outcome of a comparison, a = 1 for true              *)
(*   k = "unk"  : a value outside these forms                              *)
(* which is exact for angles that are multiples of 30 degrees.             *)
(***************************************************************************)
Abs(x) == IF x < 0 THEN -x ELSE x

RECURSIVE GCD(_, _)
GCD(x, y) == IF y = 0 THEN x ELSE GCD(y, x % y)

Rat(n, d) ==
    LET g == GCD(Abs(n), Abs(d))
        s == IF d < 0 THEN -1 ELSE 1
    IN  <<(s * n) \div g, (s * d) \div g>>

Zero == <<0, 1>>
One == <<1, 1>>

RAdd(x, y) == Rat(x[1] * y[2] + y[1] * x[2], x[2] * y[2])
RNeg(x) == <<-x[1], x[2]>>
RSub(x, y) == RAdd(x, RNeg(y))
RMul(x, y) == Rat(x[1] * y[1], x[2] * y[2])
RDiv(x, y) == Rat(x[1] * y[2], x[2] * y[1])
RLeq(x, y) == x[1] * y[2] <= y[1] * x[2]
RLess(x, y) == x[1] * y[2] < y[1] * x[2]

Val(vk, va, vb, ve, vp, vq) == [k |-> vk, a |-> va, b |-> vb, e |-> ve, p |-> vp, q |-> vq]

VNum(r) == Val("num", r, Zero, 0, Zero, Zero)
VInt(n) == VNum(<<n, 1>>)
VNaN == Val("nan", Zero, Zero, 0, Zero, Zero)
VUnk == Val("unk", Zero, Zero, 0, Zero, Zero)
VInf(s) == Val("inf", <<s, 1>>, Zero, 0, Zero, Zero)
VBool(t) == Val("bool", IF t THEN One ELSE Zero, Zero, 0, Zero, Zero)

\* (n / d) * pi
VPi(r) == Val("num", r, Zero, 1, Zero, Zero)

IsRational(x) == x.k = "num" /\ x.e = 0 /\ x.b = Zero

Poisoned(x, y) == x.k \in {"nan", "unk"} \/ y.k \in {"nan", "unk"}

Poison(x, y) == IF x.k = "unk" \/ y.k = "unk" THEN VUnk ELSE VNaN

VAdd(x, y) ==
    CASE Poisoned(x, y) -> Poison(x, y)
      [] x.k = "num" /\ y.k = "num" /\ x.e = y.e ->
            Val("num", RAdd(x.a, y.a), RAdd(x.b, y.b), x.e, Zero, Zero)
      [] OTHER -> VUnk

VSub(x, y) ==
    CASE Poisoned(x, y) -> Poison(x, y)
      [] x.k = "num" /\ y.k = "num" /\ x.e = y.e ->
            Val("num", RSub(x.a, y.a), RSub(x.b, y.b), x.e, Zero, Zero)
      [] OTHER -> VUnk

VMul(x, y) ==
    CASE Poisoned(x, y) -> Poison(x, y)
      [] x.k = "num" /\ y.k = "num" /\ x.e + y.e <= 1 ->
            Val("num",
                RAdd(RMul(x.a, y.a), RMul(<<3, 1>>, RMul(x.b, y.b))),
                RAdd(RMul(x.a, y.b), RMul(x.b, y.a)),
                x.e + y.e, Zero, Zero)
      [] IsRational(x) /\ y.k = "ang" /\ RLess(Zero, x.a) ->
            Val("ang", RMul(x.a, y.a), Zero, 0, y.p, y.q)
      [] x.k = "ang" /\ IsRational(y) /\ RLess(Zero, y.a) ->
            Val("ang", RMul(x.a, y.a), Zero, 0, x.p, x.q)
      [] OTHER -> VUnk

VDiv(x, y) ==
    CASE Poisoned(x, y) -> Poison(x, y)
      [] x.k = "num" /\ IsRational(y) /\ y.a # Zero ->
            Val("num", RDiv(x.a, y.a), RDiv(x.b, y.a), x.e, Zero, Zero)
      [] OTHER -> VUnk

VSqrt(x) ==
    CASE x.k = "nan" -> VNaN
      [] IsRational(x) ->
            IF RLess(x.a, Zero) THEN VNaN ELSE Val("sqrt", x.a, Zero, 0, Zero, Zero)
      [] OTHER -> VUnk

\* sin(k * pi / 6) as <<a, b>>, the number a + b * sqrt(3)
SinTwelfth(k) ==
    CASE k \in {0, 6} -> <<Zero, Zero>>
      [] k \in {1, 5} -> <<<<1, 2>>, Zero>>
      [] k \in {2, 4} -> <<Zero, <<1, 2>>>>
      [] k = 3 -> <<One, Zero>>
      [] k \in {7, 11} -> <<<<-1, 2>>, Zero>>
      [] k \in {8, 10} -> <<Zero, <<-1, 2>>>>
      [] OTHER -> <<<<-1, 1>>, Zero>>

\* the multiple of pi / 6 an angle is, when it is one
IsTwelfth(x) ==
    /\ x.k = "num"
    /\ x.b = Zero
    /\ (x.e = 1 \/ x.a = Zero)
    /\ (6 * x.a[1]) % x.a[2] = 0

Twelfth(x) == ((6 * x.a[1]) \div x.a[2]) % 12

VSin(x) ==
    CASE x.k \in {"nan", "inf"} -> VNaN
      [] IsTwelfth(x) ->
            LET sc == SinTwelfth(Twelfth(x)) IN Val("num", sc[1], sc[2], 0, Zero, Zero)
      [] OTHER -> VUnk

VCos(x) ==
    CASE x.k \in {"nan", "inf"} -> VNaN
      [] IsTwelfth(x) ->
            LET sc == SinTwelfth((Twelfth(x) + 3) % 12)
            IN  Val("num", sc[1], sc[2], 0, Zero, Zero)
      [] OTHER -> VUnk

VAtan2(y, x) ==
    CASE y.k = "nan" \/ x.k = "nan" -> VNaN
      [] y.k = "sqrt" /\ x.k = "sqrt" -> Val("ang", One, Zero, 0, y.a, x.a)
      [] OTHER -> VUnk

(***************************************************************************)
(* m * atan2(sqrt(p), sqrt(q)) <= d for a rational d.  The angle is 0 when *)
(* p = 0 and pi / 2 when q = 0 < p; otherwise it is below d exactly when   *)
(* d / m >= pi / 2, or 0 <= d / m and p / q <= tan(d / m)^2.               *)
(***************************************************************************)
\* pi, to 3 parts in 10^7
PiHalf == <<355, 226>>

\* tan(d / m)^2 in ten-thousandths, for the d / m below pi / 2 that the
\* radii and distances of the model give

TanSq(m, d) ==
    CASE m = 12734 /\ d = 3000 -> 576
      [] m = 12734 /\ d = 6000 -> 2595
      [] m = 12734 /\ d = 9000 -> 7292
      [] m = 12734 /\ d = 12000 -> 18935
      [] m = 7912 /\ d = 3000 -> 1588
      [] m = 7912 /\ d = 6000 -> 8974
      [] m = 7912 /\ d = 9000 -> 46729
      [] m = 7912 /\ d = 12000 -> 3408407

TanSqKnown(m, d) ==
    /\ m[2] = 1 /\ d[2] = 1
    /\ m[1] \in {12734, 7912}
    /\ d[1] \in {3000, 6000, 9000, 12000}

AngLeq(m, p, q, d) ==
    CASE p = Zero -> VBool(RLeq(Zero, d))
      [] q = Zero -> VBool(RLeq(RMul(m, PiHalf), d))
      [] RLess(d, Zero) -> VBool(FALSE)
      [] RLeq(RMul(m, PiHalf), d) -> VBool(TRUE)
      [] TanSqKnown(m, d) ->
            VBool(RLeq(RDiv(p, q), Rat(TanSq(m[1], d[1]), 10000)))
      [] OTHER -> VUnk

VLeq(x, y) ==
    CASE Poisoned(x, y) -> IF x.k = "unk" \/ y.k = "unk" THEN VUnk ELSE VBool(FALSE)
      [] y.k = "inf" -> IF x.k \in {"num", "ang"} THEN VBool(y.a[1] > 0) ELSE VUnk
      [] x.k = "ang" /\ IsRational(y) -> AngLeq(x.a, x.p, x.q, y.a)
      [] IsRational(x) /\ IsRational(y) -> VBool(RLeq(x.a, y.a))
      [] OTHER -> VUnk
(***************************************************************************)
(* Reading the query as PromQL: blanks separate tokens, atan2 binds like   *)
(* * and /, these bind tighter than + and -, and <= binds loosest; binary  *)
(* operators of one level associate to the left.  The expression is        *)
(* evaluated for one series, whose geohashing_lat and geohashing_lon       *)
(* samples are env.lat and env.lon degrees.                                *)
(***************************************************************************)
Lex(o) == Without(o, " ")

\* the integers the number literals of a query can denote
LiteralInts ==
    {1, 2, 6367, 3956}
        \cup {Deg(i) : i \in -(NLat + NLon)..(NLat + NLon)}
        \cup {Dist(j) : j \in 1..NDist}

IsIntLiteral(tok) == \E n \in LiteralInts : tok \in {ToString(n), ToString(n) \o ".0"}

IntLiteral(tok) == CHOOSE n \in LiteralInts : tok \in {ToString(n), ToString(n) \o ".0"}

IsNumber(tok) ==
    \/ tok \in {d2r, "nan", "inf", "-inf", "0.5000000000000001", "-0.4999999999999998"}
    \/ IsIntLiteral(tok)

\* the value of a number literal; the two cosines that are one ulp off a
\* half are read as the half
Literal(tok) ==
    CASE tok = d2r -> VPi(<<1, 180>>)
      [] tok = "nan" -> VNaN
      [] tok = "inf" -> VInf(1)
      [] tok = "-inf" -> VInf(-1)
      [] tok = "0.5000000000000001" -> VNum(<<1, 2>>)
      [] tok = "-0.4999999999999998" -> VNum(<<-1, 2>>)
      [] OTHER -> VInt(IntLiteral(tok))

Functions == {"sin", "cos", "sqrt"}

Call(f, x) ==
    CASE f = "sin" -> VSin(x)
      [] f = "cos" -> VCos(x)
      [] OTHER -> VSqrt(x)

Binary(op, x, y) ==
    CASE op = "*" -> VMul(x, y)
      [] op = "/" -> VDiv(x, y)
      [] op = "atan2" -> VAtan2(x, y)
      [] op = "+" -> VAdd(x, y)
      [] op = "-" -> VSub(x, y)
      [] OTHER -> VLeq(x, y)

At(t, p) == IF p \in DOMAIN t THEN t[p] ELSE ""

Res(v, p) == [v |-> v, p |-> p]

RECURSIVE EvalCmp(_, _, _), EvalCmpRest(_, _, _, _), EvalAdd(_, _, _),
          EvalAddRest(_, _, _, _), EvalMul(_, _, _), EvalMulRest(_, _, _, _),
          EvalPrimary(_, _, _)

Closed(t, r) == IF At(t, r.p) = ")" THEN Res(r.v, r.p + 1) ELSE Res(VUnk, Len(t) + 2)

EvalPrimary(t, p, env) ==
    LET tok == At(t, p) IN
    CASE tok = "(" -> Closed(t, EvalCmp(t, p + 1, env))
      [] tok \in Functions /\ At(t, p + 1) = "(" ->
            LET r == Closed(t, EvalCmp(t, p + 2, env)) IN Res(Call(tok, r.v), r.p)
      [] tok \in MetricNames ->
            Res(VInt(IF tok = "geohashing_lat" THEN env.lat ELSE env.lon),
                IF At(t, p + 1) = Selector THEN p + 2 ELSE p + 1)
      [] IsNumber(tok) -> Res(Literal(tok), p + 1)
      [] OTHER -> Res(VUnk, Len(t) + 2)

EvalMulRest(t, acc, p, env) ==
    IF At(t, p) \in {"*", "/", "atan2"}
    THEN LET r == EvalPrimary(t, p + 1, env)
         IN  EvalMulRest(t, Binary(At(t, p), acc, r.v), r.p, env)
    ELSE Res(acc, p)

EvalMul(t, p, env) ==
    LET r == EvalPrimary(t, p, env) IN EvalMulRest(t, r.v, r.p, env)

EvalAddRest(t, acc, p, env) ==
    IF At(t, p) \in {"+", "-"}
    THEN LET r == EvalMul(t, p + 1, env)
         IN  EvalAddRest(t, Binary(At(t, p), acc, r.v), r.p, env)
    ELSE Res(acc, p)

EvalAdd(t, p, env) ==
    LET r == EvalMul(t, p, env) IN EvalAddRest(t, r.v, r.p, env)

EvalCmpRest(t, acc, p, env) ==
    IF At(t, p) = "<="
    THEN LET r == EvalAdd(t, p + 1, env)
         IN  EvalCmpRest(t, Binary("<=", acc, r.v), r.p, env)
    ELSE Res(acc, p)

EvalCmp(t, p, env) ==
    LET r == EvalAdd(t, p, env) IN EvalCmpRest(t, r.v, r.p, env)

\* the value of a whole expression given as fragments
Evaluate(o, env) ==
    LET t == Lex(o)
        r == EvalCmp(t, 1, env)
    IN  IF r.p = Len(t) + 1 THEN r.v ELSE VUnk

(***************************************************************************)
(* The Haversine test itself, for points in whole degrees.                 *)
(***************************************************************************)
Radians(deg) == VPi(Rat(deg, 180))

HaversineA(lat1, lon1, lat2, lon2) ==
    LET sLat == VSin(VDiv(Radians(lat2 - lat1), VInt(2)))
        sLon == VSin(VDiv(Radians(lon2 - lon1), VInt(2)))
    IN  VAdd(VMul(sLat, sLat),
             VMul(VMul(VCos(Radians(lat1)), VCos(Radians(lat2))), VMul(sLon, sLon)))

FloatValue(f) ==
    CASE f.k = "int" -> VInt(f.n)
      [] f.k = "inf" -> VInf(f.n)
      [] OTHER -> VNaN

HaversineWithin(lat1, lon1, lat2, lon2, radius, distance) ==
    LET hav == HaversineA(lat1, lon1, lat2, lon2)
    IN  VLeq(VMul(VMul(VInt(radius), VInt(2)),
                  VAtan2(VSqrt(hav), VSqrt(VSub(VInt(1), hav)))),
             FloatValue(distance))

MetricLats == {Deg(i) : i \in -NMetricLat..NMetricLat}
MetricLons == {Deg(i) : i \in 0..NMetricLon}
Series == [lat : MetricLats, lon : MetricLons]

PrintedFinite == Printed /\ args[1].lat.k = "int" /\ args[1].lon.k = "int"

Radius(unit) == IF unit = "km" THEN 6367 ELSE 3956

\* the reading of the printed query and the Haversine test both come out as
\* a truth value on every series of the model
EvalDefined ==
    PrintedFinite =>
        \A env \in Series :
            /\ Evaluate(stdout[1], env).k = "bool"
            /\ HaversineWithin(env.lat, env.lon, args[1].lat.n, args[1].lon.n,
                               Radius(args[1].unit), args[1].distance).k = "bool"

(***************************************************************************)
(* C1: on every series the printed query, read as PromQL, is true exactly  *)
(* when the Haversine distance radius * 2 * atan2(sqrt(a), sqrt(1 - a))    *)
(* between the series' point and (lat, lon) is at most the distance.       *)
(***************************************************************************)
C1_QueryIsHaversine ==
    PrintedFinite =>
        \A env \in Series :
            Evaluate(stdout[1], env) =
                HaversineWithin(env.lat, env.lon, args[1].lat.n, args[1].lon.n,
                                Radius(args[1].unit), args[1].distance)

(***************************************************************************)
(* C8: the operands of the two sqrt are the same text A, up to the 1-      *)
(* before the second, and on every series the operand of the second sqrt   *)
(* has the value 1 minus the value of A.                                   *)
(***************************************************************************)
Atan2At(t) == CHOOSE j \in DOMAIN t : t[j] = "atan2"

FirstSqrtArg(t) == SubSeq(t, 8, Atan2At(t) - 2)

SecondSqrtArg(t) == SubSeq(t, Atan2At(t) + 3, Len(t) - 4)

C8_OneMinusWholeA ==
    PrintedFinite =>
        LET t == Lex(stdout[1]) IN
        /\ Count(t, "atan2") = 1
        /\ Slice(t, 5, 3) = <<"(", "sqrt", "(">>
        /\ Slice(t, Atan2At(t) - 1, 4) = <<")", "atan2", "sqrt", "(">>
        /\ SecondSqrtArg(t) = <<"1", "-">> \o FirstSqrtArg(t)
        /\ \A env \in Series :
             Evaluate(SecondSqrtArg(t), env) =
                VSub(VInt(1), Evaluate(FirstSqrtArg(t), env))

\* the two operands are the same text, and the second denotes 1 - A only
\* in its first term: (1 - sin(dLat/2)^2) + cosLat1 * cosLat2 * sin(dLon/2)^2
C8_AsPrinted ==
    PrintedFinite =>
        LET t == Lex(stdout[1]) IN
        /\ SecondSqrtArg(t) = <<"1", "-">> \o FirstSqrtArg(t)
        /\ \A env \in Series :
             LET hLat == VSin(VDiv(Radians(args[1].lat.n - env.lat), VInt(2)))
                 hLon == VSin(VDiv(Radians(args[1].lon.n - env.lon), VInt(2)))
                 cc == VMul(VCos(Radians(env.lat)), VCos(Radians(args[1].lat.n)))
             IN  Evaluate(SecondSqrtArg(t), env) =
                    VAdd(VSub(VInt(1), VMul(hLat, hLat)), VMul(cc, VMul(hLon, hLon)))
====
